---- MODULE Spec2Model ----
(***************************************************************************)
(* gaia-filter (lib/filter.js): a MongoDB-style query is compiled once by  *)
(* parseQuery/parseFilter into a stack and then evaluated against data by  *)
(* testFilter/_testFilter; Filter.prototype.test/subset/pass/index shape   *)
(* the result.                                                             *)
(*                                                                         *)
(* JavaScript values are tagged records [t, v]:                            *)
(*   undefined, number, string, boolean, array (v: sequence of values),    *)
(*   object (v: sequence of [k, v] properties, in key order).              *)
(* A call's outcome is [threw, val]: either it returned the boolean val or *)
(* it raised (a TypeError).                                                *)
(***************************************************************************)
EXTENDS Integers, Sequences, FiniteSets, TLC

\* ------------------------------------------------------------------ bounds

\* longest data array handed to subset / pass / index
MaxLen == 2

\* number of calls made on one filter
MaxCalls == 2

\* ------------------------------------------------------------ JS values

Undef == [t |-> "undefined", v |-> 0]
Num(n) == [t |-> "number", v |-> n]
Str(s) == [t |-> "string", v |-> s]
Bool(b) == [t |-> "boolean", v |-> b]
Arr(s) == [t |-> "array", v |-> s]
Obj(s) == [t |-> "object", v |-> s]
P(k, x) == [k |-> k, v |-> x]

\* the typeof test with the 'boolean' case left out
IsLiteral_m(x) == x.t \in {"string", "number"}

\* typeof p is 'string', 'number' or 'boolean'
IsLiteral(x) == x.t \in {"string", "number", "boolean"}

\* the strings of the model that are numeric literals: ToNumber gives a
\* number for them and NaN for every other string
NumericStr(s) == s = "1"
StrToNum(s) == IF s = "1" THEN 1 ELSE 0

\* the code-unit order of the model's strings ("1" < "hello" < "universe")
StrRank(s) == CASE s = "1" -> 0 [] s = "hello" -> 1 [] s = "universe" -> 2 [] OTHER -> 3

\* ToBoolean
Truthy(x) ==
  CASE x.t = "undefined" -> FALSE
    [] x.t = "number" -> x.v # 0
    [] x.t = "string" -> x.v # ""
    [] x.t = "boolean" -> x.v
    [] OTHER -> TRUE

\* ToPrimitive of an array or object is a string; ToNumber of that string is
\* a number only for [] ("" -> 0) and [x] with x numeric
IsNaN(x) ==
  CASE x.t = "undefined" -> TRUE
    [] x.t = "number" -> FALSE
    [] x.t = "boolean" -> FALSE
    [] x.t = "string" -> ~NumericStr(x.v)
    [] x.t = "array" ->
         IF Len(x.v) = 0 THEN FALSE
         ELSE IF Len(x.v) = 1 THEN
           (x.v[1].t \notin {"number"} /\ ~(x.v[1].t = "string" /\ NumericStr(x.v[1].v)))
         ELSE TRUE
    [] OTHER -> TRUE

ToNumber(x) ==
  CASE x.t = "number" -> x.v
    [] x.t = "boolean" -> (IF x.v THEN 1 ELSE 0)
    [] x.t = "string" -> StrToNum(x.v)
    [] x.t = "array" ->
         IF Len(x.v) = 0 THEN 0
         ELSE IF x.v[1].t = "number" THEN x.v[1].v ELSE StrToNum(x.v[1].v)
    [] OTHER -> 0

\* a === b: same type and same value; arrays and objects are compared by
\* reference, and a value of a query is never the same object as a value of
\* the data
StrictEq(a, b) ==
  /\ a.t = b.t
  /\ a.t \notin {"array", "object"}
  /\ a.v = b.v

\* a == b: as === for equal types, otherwise undefined equals nothing else
\* and numbers, booleans and strings are compared as numbers (an array or
\* object is first made primitive)
LooseEq(a, b) ==
  IF a.t = b.t THEN StrictEq(a, b)
  ELSE IF a.t = "undefined" \/ b.t = "undefined" THEN FALSE
  ELSE IF a.t = "object" \/ b.t = "object" THEN FALSE
  ELSE ~IsNaN(a) /\ ~IsNaN(b) /\ ToNumber(a) = ToNumber(b)

\* a < b (abstract relational comparison): two strings compare by code
\* units, anything else as numbers, and NaN compares false
IsStringy(x) == x.t = "string"
JsLess(a, b) ==
  IF IsStringy(a) /\ IsStringy(b) THEN StrRank(a.v) < StrRank(b.v)
  ELSE ~IsNaN(a) /\ ~IsNaN(b) /\ ToNumber(a) < ToNumber(b)
JsLessEq(a, b) ==
  IF IsStringy(a) /\ IsStringy(b) THEN StrRank(a.v) <= StrRank(b.v)
  ELSE ~IsNaN(a) /\ ~IsNaN(b) /\ ToNumber(a) <= ToNumber(b)

\* a.indexOf(x) of an array: the first position whose element === x, or -1
\* (0-based)
RECURSIVE IndexFrom(_, _, _)
IndexFrom(s, x, i) ==
  IF i > Len(s) THEN -1
  ELSE IF StrictEq(s[i], x) THEN i - 1
  ELSE IndexFrom(s, x, i + 1)
indexOf(a, x) == IndexFrom(a.v, x, 1)

\* s.indexOf(x) of a string searches for the text of x; no string of the
\* model is a proper substring of another, so x is found (at 0) exactly
\* when its text is s
TextIs(s, x) ==
  \/ x.t = "string" /\ x.v = s
  \/ x.t = "number" /\ NumericStr(s) /\ StrToNum(s) = x.v

\* a.indexOf is a function for arrays and strings only
HasIndexOf(a) == a.t \in {"array", "string"}
Contains(a, x) ==
  IF a.t = "array" THEN indexOf(a, x) # -1 ELSE TextIs(a.v, x)

\* a.length: arrays and strings have one, reading it from undefined raises,
\* and it is undefined for every other value of the model
HasLength(a) == a.t \in {"array", "string"}
StrLen(s) == CASE s = "1" -> 1 [] s = "hello" -> 5 [] s = "universe" -> 8 [] OTHER -> 0
Length(a) == IF a.t = "array" THEN Len(a.v) ELSE StrLen(a.v)

\* ----------------------------------------------------------- outcomes

Ret(b) == [threw |-> FALSE, val |-> b]
Threw == [threw |-> TRUE, val |-> FALSE]

\* ---------------------------------------------------------- comparators

\* fn.length, the declared number of parameters of a comparator
Arity(fn) == IF fn \in {"$or", "$nor", "$and"} THEN 1 ELSE 2

\* $all: a.indexOf is called once b has an element, and raises unless a is
\* an array or a string (the argument b is an array in this model)
RECURSIVE AllFrom(_, _, _)
AllFrom(a, b, i) ==
  IF i > Len(b.v) THEN Ret(TRUE)
  ELSE IF ~HasIndexOf(a) THEN Threw
  ELSE IF ~Contains(a, b.v[i]) THEN Ret(FALSE)
  ELSE AllFrom(a, b, i + 1)
cmp_all(a, b) ==
  IF b.t = "undefined" THEN Threw
  ELSE IF b.t # "array" THEN Ret(TRUE)
  ELSE AllFrom(a, b, 1)

\* $in / $nin: b.indexOf(a)
cmp_in(a, b) == IF HasIndexOf(b) THEN Ret(Contains(b, a)) ELSE Threw
cmp_nin(a, b) == IF HasIndexOf(b) THEN Ret(~Contains(b, a)) ELSE Threw

\* $exists: !!a == b
cmp_exists(a, b) == Ret(LooseEq(Bool(Truthy(a)), b))

\* $mod: a % b[0] == b[1]; the remainder is NaN when a or b[0] is not a
\* number or b[0] is 0
cmp_mod(a, b) ==
  IF b.t = "undefined" THEN Threw
  ELSE IF b.t # "array" \/ Len(b.v) < 2 THEN Ret(FALSE)
  ELSE IF IsNaN(a) \/ IsNaN(b.v[1]) THEN Ret(FALSE)
  ELSE IF ToNumber(b.v[1]) = 0 THEN Ret(FALSE)
  ELSE Ret(LooseEq(Num(ToNumber(a) % ToNumber(b.v[1])), b.v[2]))

\* $size, lines 436-438: (a && a.length && b) ? a.length == b : false
cmp_size_1(a, b) ==
  IF Truthy(a) /\ HasLength(a) /\ Length(a) # 0 /\ Truthy(b)
  THEN Ret(LooseEq(Num(Length(a)), b)) ELSE Ret(FALSE)

\* $size, lines 709-711: (a.length && b) ? a.length == b : false
cmp_size(a, b) ==
  IF a.t = "undefined" THEN Threw
  ELSE IF HasLength(a) /\ Length(a) # 0 /\ Truthy(b)
  THEN Ret(LooseEq(Num(Length(a)), b)) ELSE Ret(FALSE)

\* $or / $nor / $and over an array a of values
RECURSIVE AnyTruthy(_, _)
AnyTruthy(s, i) == IF i > Len(s) THEN FALSE ELSE Truthy(s[i]) \/ AnyTruthy(s, i + 1)
\* $or with res assigned from every element, so that the last one decides
cmp_or_m(a) ==
  IF a.t = "undefined" THEN Threw
  ELSE IF a.t # "array" \/ Len(a.v) = 0 THEN Ret(FALSE)
  ELSE Ret(Truthy(a.v[Len(a.v)]))

cmp_or(a) == IF a.t = "undefined" THEN Threw ELSE
  IF a.t # "array" THEN Ret(FALSE) ELSE Ret(AnyTruthy(a.v, 1))
cmp_nor(a) == IF a.t = "undefined" THEN Threw ELSE
  IF a.t # "array" THEN Ret(TRUE) ELSE Ret(~AnyTruthy(a.v, 1))
RECURSIVE AllTruthy(_, _)
AllTruthy(s, i) == IF i > Len(s) THEN TRUE ELSE Truthy(s[i]) /\ AllTruthy(s, i + 1)
cmp_and(a) == IF a.t = "undefined" THEN Threw ELSE
  IF a.t # "array" THEN Ret(TRUE) ELSE Ret(AllTruthy(a.v, 1))

\* the names for which Filter.comparators has a function
ComparatorNames ==
  {"$gt", "$gte", "$lt", "$lte", "$all", "$exists", "$mod", "$eq", "$ne",
   "$in", "$nin", "$size", "$or", "$nor", "$and"}

\* Filter.comparators as first assigned (lines 253-496): $eq and $ne are
\* strict and $size guards its subject
comparators_1(fn, a, b) ==
  CASE fn = "$gt" -> Ret(JsLess(b, a))
    [] fn = "$gte" -> Ret(JsLessEq(b, a))
    [] fn = "$lt" -> Ret(JsLess(a, b))
    [] fn = "$lte" -> Ret(JsLessEq(a, b))
    [] fn = "$all" -> cmp_all(a, b)
    [] fn = "$exists" -> cmp_exists(a, b)
    [] fn = "$mod" -> cmp_mod(a, b)
    [] fn = "$eq" -> Ret(StrictEq(a, b))
    [] fn = "$ne" -> Ret(~StrictEq(a, b))
    [] fn = "$in" -> cmp_in(a, b)
    [] fn = "$nin" -> cmp_nin(a, b)
    [] fn = "$size" -> cmp_size_1(a, b)
    [] fn = "$or" -> cmp_or(a)
    [] fn = "$nor" -> cmp_nor(a)
    [] fn = "$and" -> cmp_and(a)

\* Filter.comparators as assigned again further down the same file (lines
\* 661-739): this assignment runs last, so it is the table a filter sees
comparators(fn, a, b) ==
  CASE fn = "$gt" -> Ret(JsLess(b, a))
    [] fn = "$gte" -> Ret(JsLessEq(b, a))
    [] fn = "$lt" -> Ret(JsLess(a, b))
    [] fn = "$lte" -> Ret(JsLessEq(a, b))
    [] fn = "$all" -> cmp_all(a, b)
    [] fn = "$exists" -> cmp_exists(a, b)
    [] fn = "$mod" -> cmp_mod(a, b)
    [] fn = "$eq" -> Ret(LooseEq(a, b))
    [] fn = "$ne" -> Ret(~LooseEq(a, b))
    [] fn = "$in" -> cmp_in(a, b)
    [] fn = "$nin" -> cmp_nin(a, b)
    [] fn = "$size" -> cmp_size(a, b)
    [] fn = "$or" -> cmp_or(a)
    [] fn = "$nor" -> cmp_nor(a)
    [] fn = "$and" -> cmp_and(a)

\* ------------------------------------------------------------- compiler

\* cmd[0] == '$', over the keys of the model
Dollar(cmd) == cmd \in ComparatorNames \cup {"$bogus"}

\* TRAVERSABLE / traversable
TRAVERSABLE(test) == test \in {"$and", "$or", "$nor"}

\* Filter.comparators[test]: the function of that name, or undefined
Lookup(test) == IF test \in ComparatorNames THEN test ELSE "undefined"

\* the keys a for-in loop visits, in order
Keys(query) == IF query.t = "object" THEN [i \in 1..Len(query.v) |-> query.v[i].k] ELSE << >>
Vals(query) == IF query.t = "object" THEN [i \in 1..Len(query.v) |-> query.v[i].v] ELSE << >>

RECURSIVE parseQuery(_)
RECURSIVE parseFilter(_)
RECURSIVE parseParams(_, _, _)

\* the inner loop of parseFilter over params[i]: a literal clears traverse
\* and pushes the nq left by an earlier element, anything else is compiled
\* by parseQuery and pushed
\* the inner loop with traverse assigned from every element (true for an
\* object, false for a literal), so that the last element decides
parseParams_m(params, i, acc) ==
  IF i > Len(params.v) THEN acc
  ELSE LET p == params.v[i]
           nq == IF IsLiteral(p) THEN acc.nq ELSE parseQuery(p)
       IN parseParams(params, i + 1,
            [traverse |-> ~IsLiteral(p),
             nq |-> nq,
             st |-> Append(acc.st, nq)])

parseParams(params, i, acc) ==
  IF i > Len(params.v) THEN acc
  ELSE LET p == params.v[i]
           nq == IF IsLiteral(p) THEN acc.nq ELSE parseQuery(p)
       IN parseParams(params, i + 1,
            [traverse |-> acc.traverse /\ ~IsLiteral(p),
             nq |-> nq,
             st |-> Append(acc.st, nq)])

parseFilter(query) ==
  [n \in 1..Len(Keys(query)) |->
     LET test == Keys(query)[n]
         params == Vals(query)[n]
         r == IF TRAVERSABLE(test) /\ params.t = "array"
              THEN parseParams(params, 1, [traverse |-> TRUE, nq |-> << >>, st |-> << >>])
              ELSE [traverse |-> TRAVERSABLE(test), nq |-> << >>, st |-> << >>]
     IN [fn |-> Lookup(test),
         params |-> IF r.traverse THEN r.st ELSE params,
         traverse |-> r.traverse]]

\* parseQuery setting qry.path = cmd for an operator key as well
parseQuery_path(query) ==
  [n \in 1..Len(Keys(query)) |->
     LET cmd == Keys(query)[n]
         params == Vals(query)[n]
     IN IF Dollar(cmd) THEN [test |-> parseFilter(query), path |-> Str(cmd)]
        ELSE IF IsLiteral(params)
        THEN [test |-> parseFilter(Obj(<<P("$eq", params)>>)), path |-> Str(cmd)]
        ELSE [test |-> parseFilter(params), path |-> Str(cmd)]]

\* parseQuery without line 523: the clause of a nested condition object
\* gets no path
parseQuery_nopath(query) ==
  [n \in 1..Len(Keys(query)) |->
     LET cmd == Keys(query)[n]
         params == Vals(query)[n]
     IN IF Dollar(cmd) THEN [test |-> parseFilter(query), path |-> Undef]
        ELSE IF IsLiteral(params)
        THEN [test |-> parseFilter(Obj(<<P("$eq", params)>>)), path |-> Str(cmd)]
        ELSE [test |-> parseFilter(params), path |-> Undef]]

\* parseQuery compiling, for an operator key, that key alone
parseQuery_own(query) ==
  [n \in 1..Len(Keys(query)) |->
     LET cmd == Keys(query)[n]
         params == Vals(query)[n]
     IN IF Dollar(cmd) THEN [test |-> parseFilter(Obj(<<P(cmd, params)>>)), path |-> Undef]
        ELSE IF IsLiteral(params)
        THEN [test |-> parseFilter(Obj(<<P("$eq", params)>>)), path |-> Str(cmd)]
        ELSE [test |-> parseFilter(params), path |-> Str(cmd)]]

parseQuery(query) ==
  [n \in 1..Len(Keys(query)) |->
     LET cmd == Keys(query)[n]
         params == Vals(query)[n]
     IN IF Dollar(cmd) THEN [test |-> parseFilter(query), path |-> Undef]
        ELSE IF IsLiteral(params)
        THEN [test |-> parseFilter(Obj(<<P("$eq", params)>>)), path |-> Str(cmd)]
        ELSE [test |-> parseFilter(params), path |-> Str(cmd)]]

\* ------------------------------------------------------------ evaluator

\* the segments of a path string, as tea-properties parses it
PathSegs(path) == IF path = "a.b" THEN <<"a", "b">> ELSE <<path>>

\* tmp[part]
RECURSIVE PropFrom(_, _, _)
PropFrom(props, part, i) ==
  IF i > Len(props) THEN Undef
  ELSE IF props[i].k = part THEN props[i].v
  ELSE PropFrom(props, part, i + 1)
Prop(tmp, part) == IF tmp.t = "object" THEN PropFrom(tmp.v, part, 1) ELSE Undef

\* properties.get(obj, path): walks the segments while the value so far is
\* truthy; a missing segment gives undefined
RECURSIVE GetFrom(_, _, _)
GetFrom(tmp, segs, i) ==
  IF i > Len(segs) THEN tmp
  ELSE IF Truthy(tmp) THEN GetFrom(Prop(tmp, segs[i]), segs, i + 1)
  ELSE Undef
properties_get(obj, path) == GetFrom(obj, PathSegs(path), 1)

RECURSIVE testFilter(_, _)
RECURSIVE testFilterFrom(_, _, _, _)
RECURSIVE testNodes(_, _, _, _)
RECURSIVE traverseFrom(_, _, _, _)

\* the loop of _testFilter's traverse branch: p.push(testFilter(val, params[ii]))
traverseFrom(val, params, ii, p) ==
  IF ii > Len(params) THEN [threw |-> FALSE, p |-> p]
  ELSE LET r == testFilter(val, params[ii])
       IN IF r.threw THEN [threw |-> TRUE, p |-> p]
          ELSE traverseFrom(val, params, ii + 1, Append(p, Bool(r.val)))

\* one comparator call of _testFilter (lines 630-631): reading fn.length of
\* an undefined fn raises
callFn(test, val, params) ==
  IF test.fn = "undefined" THEN Threw
  ELSE comparators(test.fn, IF Arity(test.fn) = 1 THEN params ELSE val, params)

\* _testFilter's loop from node i on, res being the result so far
testNodes(val, stack, i, res) ==
  IF i > Len(stack) THEN Ret(res)
  ELSE LET test == stack[i]
           t == IF test.traverse
                THEN traverseFrom(val, test.params, 1, << >>)
                ELSE [threw |-> FALSE, p |-> << >>]
           params == IF test.traverse THEN Arr(t.p) ELSE test.params
       IN IF t.threw THEN Threw
          ELSE LET r == callFn(test, val, params)
               IN IF r.threw THEN Threw
                  ELSE testNodes(val, stack, i + 1, res /\ r.val)

\* _testFilter with its loop started one node late
_testFilter_m(val, stack) == testNodes(val, stack, 2, TRUE)

_testFilter(val, stack) == testNodes(val, stack, 1, TRUE)

\* testFilter's loop with pass = res in place of if (!res) pass = false
testFilterFrom_m(val, stack, si, pass) ==
  IF si > Len(stack) THEN Ret(pass)
  ELSE LET filter == stack[si]
           el == IF Truthy(filter.path)
                 THEN properties_get(val, filter.path.v)
                 ELSE val
           res == _testFilter(el, filter.test)
       IN IF res.threw THEN Threw
          ELSE testFilterFrom(val, stack, si + 1, res.val)

\* testFilter's loop from clause si on, pass being the result so far
testFilterFrom(val, stack, si, pass) ==
  IF si > Len(stack) THEN Ret(pass)
  ELSE LET filter == stack[si]
           el == IF Truthy(filter.path)
                 THEN properties_get(val, filter.path.v)
                 ELSE val
           res == _testFilter(el, filter.test)
       IN IF res.threw THEN Threw
          ELSE testFilterFrom(val, stack, si + 1, pass /\ res.val)

testFilter(val, stack) == testFilterFrom(val, stack, 1, TRUE)

\* ------------------------------------------------------- Filter methods

\* the traverse loop written to consume its list (params.shift() for each
\* nested stack): the node is left with no nested stacks
nodeAfter_m(test, p) == [test EXCEPT !.params = << >>]

\* what one pass of _testFilter's loop body leaves in the node test of the
\* stack: line 627, params = p, rebinds the local and assigns nothing in
\* test
nodeAfter(test, p) == test

\* the compiled stack as testFilter(val, stack) leaves it
stackAfter(val, stack) ==
  [si \in 1..Len(stack) |->
     LET filter == stack[si]
         el == IF Truthy(filter.path)
               THEN properties_get(val, filter.path.v)
               ELSE val
     IN [filter EXCEPT !.test =
           [i \in 1..Len(filter.test) |->
              IF filter.test[i].traverse
              THEN nodeAfter(filter.test[i],
                             traverseFrom(el, filter.test[i].params, 1, << >>).p)
              ELSE filter.test[i]]]]

\* Filter.prototype.test
test(self, data) ==
  [out |-> testFilter(data, self.stack),
   stack |-> stackAfter(data, self.stack),
   data |-> data]

\* the loops of subset, pass and index from position di on (di is the
\* 0-based loop index, data[di] is data.v[di + 1]); a raise in testFilter
\* ends the call
RECURSIVE subsetFrom(_, _, _, _)
RECURSIVE passFrom(_, _, _, _)
RECURSIVE indexFrom(_, _, _, _)
subsetFrom(stack, data, di, res) ==
  IF ~(di < Len(data.v)) THEN [threw |-> FALSE, val |-> res, stack |-> stack]
  ELSE LET datum == data.v[di + 1]
           r == testFilter(datum, stack)
       IN IF r.threw THEN [threw |-> TRUE, val |-> << >>, stack |-> stack]
          ELSE subsetFrom(stackAfter(datum, stack), data, di + 1,
                          IF r.val THEN Append(res, datum) ELSE res)

\* pass with res.unshift in place of res.push
passFrom_m(stack, data, di, res) ==
  IF ~(di < Len(data.v)) THEN [threw |-> FALSE, val |-> res, stack |-> stack]
  ELSE LET datum == data.v[di + 1]
           r == testFilter(datum, stack)
       IN IF r.threw THEN [threw |-> TRUE, val |-> << >>, stack |-> stack]
          ELSE passFrom(stackAfter(datum, stack), data, di + 1, <<r.val>> \o res)

passFrom(stack, data, di, res) ==
  IF ~(di < Len(data.v)) THEN [threw |-> FALSE, val |-> res, stack |-> stack]
  ELSE LET datum == data.v[di + 1]
           r == testFilter(datum, stack)
       IN IF r.threw THEN [threw |-> TRUE, val |-> << >>, stack |-> stack]
          ELSE passFrom(stackAfter(datum, stack), data, di + 1, Append(res, r.val))

\* index pushing the 1-based position
indexFrom_m(stack, data, di, res) ==
  IF ~(di < Len(data.v)) THEN [threw |-> FALSE, val |-> res, stack |-> stack]
  ELSE LET datum == data.v[di + 1]
           r == testFilter(datum, stack)
       IN IF r.threw THEN [threw |-> TRUE, val |-> << >>, stack |-> stack]
          ELSE indexFrom(stackAfter(datum, stack), data, di + 1,
                         IF r.val THEN Append(res, di + 1) ELSE res)

indexFrom(stack, data, di, res) ==
  IF ~(di < Len(data.v)) THEN [threw |-> FALSE, val |-> res, stack |-> stack]
  ELSE LET datum == data.v[di + 1]
           r == testFilter(datum, stack)
       IN IF r.threw THEN [threw |-> TRUE, val |-> << >>, stack |-> stack]
          ELSE indexFrom(stackAfter(datum, stack), data, di + 1,
                         IF r.val THEN Append(res, di) ELSE res)

\* Filter.prototype.subset / pass / index: res starts empty, di at 0, and
\* data is only read
\* subset with its loop started at di = 1
subset_m(self, data) ==
  LET r == subsetFrom(self.stack, data, 1, << >>)
  IN [out |-> [threw |-> r.threw, val |-> r.val], stack |-> r.stack, data |-> data]

subset(self, data) ==
  LET r == subsetFrom(self.stack, data, 0, << >>)
  IN [out |-> [threw |-> r.threw, val |-> r.val], stack |-> r.stack, data |-> data]
pass(self, data) ==
  LET r == passFrom(self.stack, data, 0, << >>)
  IN [out |-> [threw |-> r.threw, val |-> r.val], stack |-> r.stack, data |-> data]
index(self, data) ==
  LET r == indexFrom(self.stack, data, 0, << >>)
  IN [out |-> [threw |-> r.threw, val |-> r.val], stack |-> r.stack, data |-> data]

\* ------------------------------------------------ the queries and the data

Q1(k, c) == Obj(<<P(k, c)>>)
Q2(k1, c1, k2, c2) == Obj(<<P(k1, c1), P(k2, c2)>>)

FieldKeys == {"hello", "universe"}
Lits == {Bool(TRUE), Bool(FALSE), Num(1), Str("universe")}
LowArgs == {Num(0), Num(2), Str("hello")}
HighArgs == {Num(2), Num(4)}

\* { $gt: X, $lt: Y } and its spelled-out forms
Range(x, y) == Q2("$gt", x, "$lt", y)
RangeAnd(x, y) == Q1("$and", Arr(<<Q1("$gt", x), Q1("$lt", y)>>))
RangeTop(f, x, y) == Q1("$and", Arr(<<Q1(f, Q1("$gt", x)), Q1(f, Q1("$lt", y))>>))

\* the conditions put on one field
Conds ==
  Lits
  \cup {Q1("$eq", v) : v \in Lits}
  \cup {Range(x, y) : x \in LowArgs, y \in HighArgs}
  \cup {Q1("$ne", Num(1)), Q1("$in", Arr(<<Str("universe"), Num(1)>>)),
        Q1("$nin", Arr(<<Num(1)>>)), Q1("$all", Arr(<<Num(1)>>)),
        Q1("$size", Num(2)), Q1("$exists", Bool(TRUE)),
        Q1("$mod", Arr(<<Num(2), Num(1)>>)), Q1("$gte", Num(1)),
        Q1("$lte", Num(1)), Q1("$bogus", Num(1))}

\* the conditions combined in queries of two fields
CondsA == {Bool(TRUE), Num(1), Q1("$all", Arr(<<Num(1)>>)), Range(Num(0), Num(2))}
CondsB == {Bool(TRUE), Str("universe"), Q1("$in", Arr(<<Str("universe"), Num(1)>>)),
           Q1("$size", Num(2)), Q1("$all", Arr(<<Num(1)>>))}

\* expressions whose keys are all operators, applied to the record itself
Fieldless ==
  {Q1("$lt", Num(10)), Q2("$lt", Num(10), "$gt", Num(5)),
   Q2("$gte", Num(5), "$nin", Arr(<<Num(8)>>))}

\* argument arrays of $or / $and / $nor that hold a literal: first, last
\* and in the middle
MixedLists ==
  {<<Num(0), Q1("hello", Bool(TRUE))>>,
   <<Q1("hello", Bool(TRUE)), Num(0)>>,
   <<Bool(TRUE), Q1("universe", Bool(TRUE))>>,
   <<Q1("hello", Bool(TRUE)), Str("universe"), Q1("hello", Q1("$all", Arr(<<Num(1)>>)))>>}

\* a logical operator under a path clause
UnderPath ==
  {Q1("a", Q1("$and", Arr(<<Q1("b", v)>>))) : v \in Lits}
  \cup {Q1("a", Q1("$or", Arr(<<Q1("b", Bool(TRUE)), Q1("b", Q1("$gte", Num(1)))>>)))}

\* an operator key beside a field key
MixedKeys == {Q2("$gt", Num(5), "hello", Num(1)), Q2("hello", Num(1), "$gt", Num(5))}

\* the nested expressions given to $or / $and / $nor
Nested ==
  {Q1("hello", Bool(TRUE)), Q1("universe", Bool(TRUE)),
   Q1("hello", Q1("$all", Arr(<<Num(1)>>)))}
NestedLists == {<<e>> : e \in Nested} \cup {<<e1, e2>> : e1 \in Nested, e2 \in Nested}

Queries ==
  {Q1(k, c) : k \in FieldKeys, c \in Conds}
  \cup {Q1("a.b", v) : v \in Lits}
  \cup {Q2("hello", c1, "universe", c2) : c1 \in CondsA, c2 \in CondsB}
  \cup {Q1(o, Arr(es)) : o \in {"$or", "$and", "$nor"}, es \in NestedLists}
  \cup {Q1("hello", Q1("$size", Num(0)))}
  \cup Fieldless
  \cup {Q1(o, Arr(es)) : o \in {"$or", "$and", "$nor"}, es \in MixedLists}
  \cup UnderPath
  \cup MixedKeys

\* the records of the data arrays, and the records tested one at a time
Batch ==
  {Obj(<<P("hello", Bool(TRUE))>>),
   Obj(<<P("hello", Arr(<<Num(1), Num(2)>>)), P("universe", Arr(<<Num(1), Num(2)>>))>>)}
Records ==
  Batch
  \cup {Obj(<<P("universe", Bool(FALSE))>>),
        Obj(<<P("hello", Bool(FALSE)), P("universe", Bool(TRUE))>>),
        Obj(<<P("hello", Bool(FALSE)), P("universe", Bool(FALSE))>>),
        Obj(<<P("hello", Num(1)), P("universe", Str("universe"))>>),
        Obj(<<P("hello", Num(3))>>),
        Obj(<<P("hello", Str("1"))>>),
        Obj(<<P("a", Obj(<<P("b", Num(1))>>))>>),
        Obj(<<P("hello", Arr(<< >>))>>),
        Num(1), Num(4), Num(8), Num(11)}

\* the arrays handed to subset / pass / index
RECURSIVE SeqsUpTo(_, _)
SeqsUpTo(S, n) ==
  IF n = 0 THEN {<< >>}
  ELSE LET shorter == SeqsUpTo(S, n - 1)
       IN shorter \cup {Append(s, x) : s \in {t \in shorter : Len(t) = n - 1}, x \in S}
Arrays == {Arr(s) : s \in SeqsUpTo(Batch, MaxLen)}

\* ------------------------------------------------------ the state machine

VARIABLES
  query,   \* this.query
  stack,   \* this.stack
  op,      \* the last call made: "new" is Filter(query) itself
  input,   \* the argument of that call, as it was when the call was made
  data,    \* the caller's argument after the call
  ret,     \* the outcome of that call
  calls    \* the number of calls made on the filter since Filter(query)

vars == <<query, stack, op, input, data, ret, calls>>

this == [query |-> query, stack |-> stack]

\* Filter(query), lines 90-97 / 647-654: stores the query and the stack
\* parseQuery makes of it; nothing in parseQuery or parseFilter raises
Filter(q) == [out |-> Ret(TRUE), query |-> q, stack |-> parseQuery(q)]

Init ==
  /\ query \in Queries
  /\ stack = Filter(query).stack
  /\ op = "new"
  /\ input = query
  /\ data = query
  /\ ret = Filter(query).out
  /\ calls = 0

\* a call of the method name with the argument arg returns: c is what the
\* method left behind
Returns(name, arg, c) ==
  /\ op' = name
  /\ input' = arg
  /\ data' = c.data
  /\ ret' = c.out
  /\ stack' = c.stack
  /\ calls' = calls + 1
  /\ UNCHANGED query

Test ==
  /\ calls < MaxCalls
  /\ \E r \in Records : Returns("test", r, test(this, r))

Subset ==
  /\ calls < MaxCalls
  /\ \E a \in Arrays : Returns("subset", a, subset(this, a))

Pass ==
  /\ calls < MaxCalls
  /\ \E a \in Arrays : Returns("pass", a, pass(this, a))

Index ==
  /\ calls < MaxCalls
  /\ \E a \in Arrays : Returns("index", a, index(this, a))

Next == Test \/ Subset \/ Pass \/ Index

Spec == Init /\ [][Next]_vars

\* --------------------------------------------------------------- claims

\* the outcome of a fresh filter made of the expression e, tested on r
FreshTest(e, r) == testFilter(r, parseQuery(e))

\* both outcomes are needed: a raise in either is a raise of the whole
AndOut(a, b) == IF a.threw \/ b.threw THEN Threw ELSE Ret(a.val /\ b.val)
NotOut(a) == IF a.threw THEN Threw ELSE Ret(~a.val)

TypeOf(x) == x.t
IsFieldQuery(q, n) ==
  /\ q.t = "object"
  /\ Len(q.v) = n
  /\ \A i \in 1..n : ~Dollar(q.v[i].k)

\* C1: a filter whose query is { k: v } with v a string, number or boolean
\* gives on every record the outcome of the filter of { k: { $eq: v } }.
C1_LiteralAssumesEq ==
  (/\ op = "test"
   /\ IsFieldQuery(query, 1)
   /\ TypeOf(query.v[1].v) \in {"string", "number", "boolean"})
  => ret = FreshTest(Q1(query.v[1].k, Q1("$eq", query.v[1].v)), input)

\* a filter of a literal on a deep path has passed a record
C1_Witness ==
  /\ op = "test"
  /\ IsFieldQuery(query, 1)
  /\ query.v[1].k = "a.b"
  /\ query.v[1].v = Num(1)
  /\ ret = Ret(TRUE)

\* the query is { f: { $gt: X, $lt: Y } }
IsRangeQuery(q) ==
  /\ IsFieldQuery(q, 1)
  /\ q.v[1].v.t = "object"
  /\ Keys(q.v[1].v) = <<"$gt", "$lt">>

\* C2: { f: { $gt: X, $lt: Y } }, { f: { $and: [ { $gt: X }, { $lt: Y } ] } }
\* and { $and: [ { f: { $gt: X } }, { f: { $lt: Y } } ] } give the same
\* outcome on every record.
C2_ConditionsAssumeAnd ==
  (op = "test" /\ IsRangeQuery(query))
  => LET f == query.v[1].k
         x == query.v[1].v.v[1].v
         y == query.v[1].v.v[2].v
     IN /\ ret = FreshTest(Q1(f, RangeAnd(x, y)), input)
        /\ ret = FreshTest(RangeTop(f, x, y), input)

\* a range query has passed one record: both conditions held
C2_Witness ==
  /\ op = "test"
  /\ IsRangeQuery(query)
  /\ ret = Ret(TRUE)

\* C3: a filter of two clauses on different fields gives on every record the
\* conjunction of the outcomes of the filters of each clause alone, and the
\* same outcome with the two keys in the other order.
C3_ClausesAreConjunction ==
  (/\ op = "test"
   /\ IsFieldQuery(query, 2)
   /\ query.v[1].k # query.v[2].k)
  => LET p1 == query.v[1]
         p2 == query.v[2]
     IN /\ ret = AndOut(FreshTest(Obj(<<p1>>), input), FreshTest(Obj(<<p2>>), input))
        /\ ret = FreshTest(Obj(<<p2, p1>>), input)

\* a two-clause filter has failed a record that its first clause fails and
\* its second passes
C3_Witness ==
  /\ op = "test"
  /\ IsFieldQuery(query, 2)
  /\ ret = Ret(FALSE)
  /\ FreshTest(Obj(<<query.v[1]>>), input) = Ret(FALSE)
  /\ FreshTest(Obj(<<query.v[2]>>), input) = Ret(TRUE)

\* test raises on some record of the array a
RaisesIn(a) == \E i \in 1..Len(a.v) : testFilter(a.v[i], stack).threw

\* C4: pass(A) has the length of A and its i-th boolean is test(A[i]), in
\* the order of A (and it raises exactly when test raises on a record of A).
C4_PassIsTestPointwise ==
  (op = "pass")
  => /\ ret.threw <=> RaisesIn(input)
     /\ ~ret.threw =>
          /\ Len(ret.val) = Len(input.v)
          /\ \A i \in 1..Len(input.v) : ret.val[i] = testFilter(input.v[i], stack).val

\* pass has returned two different booleans for an array of two records
C4_Witness ==
  /\ op = "pass"
  /\ ret = [threw |-> FALSE, val |-> <<TRUE, FALSE>>]

\* C5: index(A) is strictly ascending and holds i exactly when pass(A)[i] is
\* true, for the 0-based positions i of A.
C5_IndexIsPassPositions ==
  (op = "index")
  => LET ps == pass(this, input).out
     IN /\ ret.threw <=> ps.threw
        /\ ~ret.threw =>
             /\ \A j \in 1..Len(ret.val) - 1 : ret.val[j] < ret.val[j + 1]
             /\ \A j \in 1..Len(ret.val) : ret.val[j] \in 0..Len(input.v) - 1
             /\ \A i \in 0..Len(input.v) - 1 :
                  (\E j \in 1..Len(ret.val) : ret.val[j] = i) <=> ps.val[i + 1]

\* index has returned the second position alone
C5_Witness ==
  /\ op = "index"
  /\ ret = [threw |-> FALSE, val |-> <<1>>]

\* C6: subset(A) is [A[i] for i in index(A)].
C6_SubsetIsIndexed ==
  (op = "subset")
  => LET ix == index(this, input).out
     IN /\ ret.threw <=> ix.threw
        /\ ~ret.threw =>
             ret.val = [j \in 1..Len(ix.val) |-> input.v[ix.val[j] + 1]]

\* subset has returned the second of two different records only
C6_Witness ==
  /\ op = "subset"
  /\ ~ret.threw
  /\ Len(input.v) = 2
  /\ input.v[1] # input.v[2]
  /\ ret.val = <<input.v[2]>>

\* an operator token that Filter.comparators does not have occurs in x
RECURSIVE UsesUnknown(_)
UsesUnknown(x) ==
  IF x.t = "object"
  THEN \E i \in 1..Len(x.v) :
         \/ Dollar(x.v[i].k) /\ x.v[i].k \notin ComparatorNames
         \/ UsesUnknown(x.v[i].v)
  ELSE IF x.t = "array" THEN \E i \in 1..Len(x.v) : UsesUnknown(x.v[i])
  ELSE FALSE

\* C7: Filter(query) fails when the query uses an operator token that is not
\* in the comparator table, and no stack holds a node without a comparator.
C7_UnknownComparatorRejected ==
  /\ (op = "new" /\ UsesUnknown(query)) => ret.threw
  /\ \A si \in 1..Len(stack) : \A i \in 1..Len(stack[si].test) :
       stack[si].test[i].fn # "undefined"

\* C8: no call of test, subset, pass or index on a filter whose operators
\* are all known raises.
C8_EvaluationNeverRaises ==
  (op # "new" /\ ~UsesUnknown(query)) => ~ret.threw

\* C9: a call of test, subset, pass or index leaves the stack and the query
\* of the filter and the caller's argument as they were, and test gives the
\* outcome a freshly made filter of the same query gives.
C9_CallsLeaveFilterAndData ==
  [][/\ stack' = stack
     /\ query' = query
     /\ data' = input'
     /\ (op' = "test" => ret' = FreshTest(query, input'))]_vars

\* a filter with a traversed node has been called twice, the second call
\* being a test
C9_Witness ==
  /\ calls = 2
  /\ op = "test"
  /\ ret = Ret(TRUE)
  /\ \E si \in 1..Len(stack) : \E i \in 1..Len(stack[si].test) :
       stack[si].test[i].traverse

\* the query is { $or / $and / $nor : [ e1 .. en ] } with every ei an object
IsLogicalQuery(q) ==
  /\ q.t = "object"
  /\ Len(q.v) = 1
  /\ q.v[1].k \in {"$or", "$and", "$nor"}
  /\ q.v[1].v.t = "array"
  /\ \A i \in 1..Len(q.v[1].v.v) : q.v[1].v.v[i].t = "object"

\* C10: { $or: [e1..en] } passes a record iff some filter(ei) passes it,
\* { $and: .. } iff all do, { $nor: .. } iff none does, and $nor gives the
\* negation of $or (a raise of any filter(ei) being a raise of the whole).
C10_LogicalOverNested ==
  (op = "test" /\ IsLogicalQuery(query))
  => LET o == query.v[1].k
         es == query.v[1].v.v
         out(i) == FreshTest(es[i], input)
         raised == \E i \in 1..Len(es) : out(i).threw
         some == \E i \in 1..Len(es) : out(i).val
         all == \A i \in 1..Len(es) : out(i).val
     IN /\ ret.threw <=> raised
        /\ ~raised =>
             ret.val = (CASE o = "$or" -> some [] o = "$and" -> all [] o = "$nor" -> ~some)
        /\ o = "$nor" => ret = NotOut(FreshTest(Q1("$or", query.v[1].v), input))

\* a $nor of two nested expressions has passed a record that neither passes
C10_Witness ==
  /\ op = "test"
  /\ IsLogicalQuery(query)
  /\ query.v[1].k = "$nor"
  /\ Len(query.v[1].v.v) = 2
  /\ ret = Ret(TRUE)

\* every key of q is a comparator of two parameters
IsOperatorQuery(q) ==
  /\ q.t = "object"
  /\ Len(q.v) > 0
  /\ \A i \in 1..Len(q.v) : q.v[i].k \in ComparatorNames /\ ~TRAVERSABLE(q.v[i].k)

\* C11: a filter whose keys are all operators applies every listed
\* comparator to the tested value itself and passes it iff all of them hold;
\* { $lt: 10, $gt: 5 } passes 8 and fails 4 and 11.
C11_FieldlessTestsRecord ==
  /\ (op = "test" /\ IsOperatorQuery(query))
     => LET out(i) == comparators(query.v[i].k, input, query.v[i].v)
            raised == \E i \in 1..Len(query.v) : out(i).threw
        IN /\ ret.threw <=> raised
           /\ ~raised => ret.val = (\A i \in 1..Len(query.v) : out(i).val)
  /\ (op = "test" /\ query = Q2("$lt", Num(10), "$gt", Num(5)))
     => /\ input = Num(8) => ret = Ret(TRUE)
        /\ input = Num(4) => ret = Ret(FALSE)
        /\ input = Num(11) => ret = Ret(FALSE)

\* { $lt: 10, $gt: 5 } has passed 8
C11_Witness ==
  /\ op = "test"
  /\ query = Q2("$lt", Num(10), "$gt", Num(5))
  /\ input = Num(8)
  /\ ret = Ret(TRUE)

\* the query is { k: { o: b } } on a field k
IsCondQuery(q, o) ==
  /\ IsFieldQuery(q, 1)
  /\ q.v[1].v.t = "object"
  /\ Keys(q.v[1].v) = <<o>>

\* C12: { k: { $size: b } } passes a record iff the value at k has a length
\* and that length is b, the length 0 included, and fails it without raising
\* when the value is absent or has no length.
C12_SizeIsLength ==
  (op = "test" /\ IsCondQuery(query, "$size"))
  => LET a == properties_get(input, query.v[1].k)
         b == query.v[1].v.v[1].v
     IN /\ ret = Ret(HasLength(a) /\ StrictEq(Num(Length(a)), b))
        /\ comparators("$size", a, b) = ret

\* C13: $eq is === and $ne is !==, called from the table or used by a filter
\* (the $eq assumed for a literal included): values of different types are
\* never equal.
C13_EqIsStrict ==
  /\ (op = "test" /\ IsFieldQuery(query, 1) /\ IsLiteral(query.v[1].v))
     => LET a == properties_get(input, query.v[1].k)
        IN /\ ret = Ret(StrictEq(a, query.v[1].v))
           /\ comparators("$eq", a, query.v[1].v) = Ret(StrictEq(a, query.v[1].v))
  /\ (op = "test" /\ IsCondQuery(query, "$eq"))
     => ret = Ret(StrictEq(properties_get(input, query.v[1].k), query.v[1].v.v[1].v))
  /\ (op = "test" /\ IsCondQuery(query, "$ne"))
     => LET a == properties_get(input, query.v[1].k)
        IN /\ ret = Ret(~StrictEq(a, query.v[1].v.v[1].v))
           /\ comparators("$ne", a, query.v[1].v.v[1].v) = ret

\* what $or / $and / $nor make of the truthiness of the elements of s
Fold(o, s) ==
  CASE o = "$or" -> \E i \in 1..Len(s) : Truthy(s[i])
    [] o = "$and" -> \A i \in 1..Len(s) : Truthy(s[i])
    [] o = "$nor" -> ~\E i \in 1..Len(s) : Truthy(s[i])

\* the query is { $or / $and / $nor : [ .. ] } with a literal in the array
IsMixedLogical(q) ==
  /\ q.t = "object"
  /\ Len(q.v) = 1
  /\ q.v[1].k \in {"$or", "$and", "$nor"}
  /\ q.v[1].v.t = "array"
  /\ \E i \in 1..Len(q.v[1].v.v) : q.v[1].v.v[i].t \in {"string", "number", "boolean"}

\* C14: a literal at any position of the argument array of $and / $or / $nor
\* leaves the node untraversed with the raw array as its params; the nested
\* expressions are not evaluated and the outcome is, for every record, what
\* the comparator makes of the truthiness of the raw elements.
C14_LiteralDisablesTraversal ==
  IsMixedLogical(query)
  => /\ Len(stack) = 1
     /\ stack[1].path = Undef
     /\ Len(stack[1].test) = 1
     /\ stack[1].test[1].fn = query.v[1].k
     /\ ~stack[1].test[1].traverse
     /\ stack[1].test[1].params = query.v[1].v
     /\ op = "test" => ret = Ret(Fold(query.v[1].k, query.v[1].v.v))

\* an $or with a literal in the middle has passed a record on which its last
\* nested expression, had it been evaluated, would have raised
C14_Witness ==
  /\ op = "test"
  /\ IsMixedLogical(query)
  /\ query.v[1].k = "$or"
  /\ Len(query.v[1].v.v) = 3
  /\ FreshTest(query.v[1].v.v[3], input).threw
  /\ ret = Ret(TRUE)

\* an evaluator that returns false at the first failing clause or node
RECURSIVE scTestFilter(_, _, _)
RECURSIVE scNodes(_, _, _)
RECURSIVE scTraverse(_, _, _, _)
scTraverse(val, params, ii, p) ==
  IF ii > Len(params) THEN [threw |-> FALSE, p |-> p]
  ELSE LET r == scTestFilter(val, params[ii], 1)
       IN IF r.threw THEN [threw |-> TRUE, p |-> p]
          ELSE scTraverse(val, params, ii + 1, Append(p, Bool(r.val)))
scNodes(val, tests, i) ==
  IF i > Len(tests) THEN Ret(TRUE)
  ELSE LET t == IF tests[i].traverse
                THEN scTraverse(val, tests[i].params, 1, << >>)
                ELSE [threw |-> FALSE, p |-> << >>]
           params == IF tests[i].traverse THEN Arr(t.p) ELSE tests[i].params
       IN IF t.threw THEN Threw
          ELSE LET r == callFn(tests[i], val, params)
               IN IF r.threw THEN Threw
                  ELSE IF ~r.val THEN Ret(FALSE)
                  ELSE scNodes(val, tests, i + 1)
scTestFilter(val, stk, si) ==
  IF si > Len(stk) THEN Ret(TRUE)
  ELSE LET el == IF Truthy(stk[si].path)
                 THEN properties_get(val, stk[si].path.v)
                 ELSE val
           res == scNodes(el, stk[si].test, 1)
       IN IF res.threw THEN Threw
          ELSE IF ~res.val THEN Ret(FALSE)
          ELSE scTestFilter(val, stk, si + 1)

\* C15: test gives, for every stack and record, the outcome of the evaluator
\* that stops at the first failing clause or node: the same boolean, and a
\* raise in the same cases.
C15_SameAsEarlyExit ==
  (op = "test") => ret = scTestFilter(input, stack, 1)

\* the query is { k: { $or / $and / $nor : [ e1 .. en ] } } on a field k with
\* every ei an object
IsUnderPath(q) ==
  /\ IsFieldQuery(q, 1)
  /\ IsLogicalQuery(q.v[1].v)

\* C16: under a path clause every nested expression of a logical operator is
\* evaluated on the value the path reaches, its own paths starting there:
\* { a: { $and: [ { b: v } ] } } gives the outcome of { 'a.b': v } on every
\* record, those without a included.
C16_NestedUnderPath ==
  (op = "test" /\ IsUnderPath(query))
  => LET el == properties_get(input, query.v[1].k)
         o == query.v[1].v.v[1].k
         es == query.v[1].v.v[1].v.v
         out(i) == FreshTest(es[i], el)
         raised == \E i \in 1..Len(es) : out(i).threw
     IN /\ ret.threw <=> raised
        /\ ~raised => ret.val = Fold(o, [i \in 1..Len(es) |-> Bool(out(i).val)])
        /\ (/\ query.v[1].k = "a"
            /\ o = "$and"
            /\ Len(es) = 1
            /\ Keys(es[1]) = <<"b">>
            /\ IsLiteral(es[1].v[1].v))
           => ret = FreshTest(Q1("a.b", es[1].v[1].v), input)

\* { a: { $and: [ { b: 1 } ] } } has passed { a: { b: 1 } }
C16_Witness ==
  /\ op = "test"
  /\ query = Q1("a", Q1("$and", Arr(<<Q1("b", Num(1))>>)))
  /\ input = Obj(<<P("a", Obj(<<P("b", Num(1))>>))>>)
  /\ ret = Ret(TRUE)

\* C17: the stack has one clause per key of the query, in key order; the
\* clause of an operator key has no path and one node per key of the whole
\* query, the node of a key that is no comparator having no function; with
\* operator keys only, every clause alone gives the outcome of the filter.
C17_ClausePerKey ==
  /\ Len(stack) = Len(query.v)
  /\ \A n \in 1..Len(query.v) :
       IF Dollar(query.v[n].k)
       THEN /\ stack[n].path = Undef
            /\ Len(stack[n].test) = Len(query.v)
            /\ \A j \in 1..Len(query.v) :
                 stack[n].test[j].fn =
                   (IF query.v[j].k \in ComparatorNames THEN query.v[j].k ELSE "undefined")
       ELSE stack[n].path = Str(query.v[n].k)
  /\ (op = "test" /\ IsOperatorQuery(query))
     => \A n \in 1..Len(stack) : testFilter(input, <<stack[n]>>) = ret

\* { $gt: 5, hello: 1 } is compiled: two clauses, the first of two nodes of
\* which the one of hello has no function
C17_Witness ==
  /\ query = Q2("$gt", Num(5), "hello", Num(1))
  /\ Len(stack) = 2
  /\ Len(stack[1].test) = 2
  /\ stack[1].test[2].fn = "undefined"

====
